---- MODULE Spec2Model ----
(***************************************************************************)
(* A model of src/app.py: a Flask REST API over two in-memory lists,       *)
(* `users` and `tasks`.  Every route handler is one action.  A request's   *)
(* JSON body (request.json) is <<>> when the body is missing or is not     *)
(* JSON, and <<obj>> when it is a JSON object, obj being a function from   *)
(* the keys present to their values.                                       *)
(***************************************************************************)
EXTENDS Integers, Sequences, FiniteSets, TLC

VARIABLES
    users,      \* the global list `users`
    tasks,      \* the global list `tasks`
    req,        \* the request handled last: [op, id, json] as the route has them
    resp,       \* the response to it: [status, body]
    assigned,   \* history: every user id given out so far (seed records, POST /users)
    nreq,       \* history: the number of requests handled
    repeat,     \* history: the request handled last repeats the one before it
    th          \* threaded server: each worker thread's position and locals

vars == <<users, tasks, req, resp, assigned, nreq, repeat, th>>

\* ---------------------------------------------------------------- bounds

\* Path ids and user_id values of requests range over 1..MaxId.
MaxId == 3
\* A run of the sequential server handles at most MaxRequests requests.
MaxRequests == 2
\* Each worker thread of the threaded server handles at most MaxPerThread requests.
MaxPerThread == 1

Ids == 1..MaxId
Threads == {1, 2}

\* ------------------------------------------------------- request bodies

NameParts == {<<>>} \cup {[name |-> v] : v \in {"", "Carol"}}
AgeParts == {<<>>} \cup {[age |-> v] : v \in {40}}
UserObjs == {n @@ a : n \in NameParts, a \in AgeParts}
UserJsons == {<<>>} \cup {<<o>> : o \in UserObjs}

TitleParts == {<<>>} \cup {[title |-> v] : v \in {"T"}}
DescParts == {<<>>} \cup {[description |-> v] : v \in {"D"}}
UserIdParts == {<<>>} \cup {[user_id |-> v] : v \in Ids}
CompletedParts == {<<>>} \cup {[completed |-> v] : v \in {TRUE}}
TaskObjs == {(t @@ d) @@ (u @@ c) : t \in TitleParts, d \in DescParts,
                                    u \in UserIdParts, c \in CompletedParts}
TaskJsons == {<<>>} \cup {<<o>> : o \in TaskObjs}

\* ------------------------------------------------------------- helpers

\* `not request.json` is false exactly for a JSON object with at least one key.
Truthy(json) == json # <<>> /\ DOMAIN json[1] # {}

\* dict.get(k, default)
Get(d, k, default) == IF k \in DOMAIN d THEN d[k] ELSE default

\* abort(status): an error response, no resource in it
Abort(status) == [status |-> status, body |-> <<>>]

\* jsonify(x), status
Json(status, x) == [status |-> status, body |-> x]

\* mutant of Find: the id taken for the list index, store[id]
FindByIndex(store, id) == IF id + 1 <= Len(store) THEN id + 1 ELSE 0

\* next((r for r in store if r['id'] == id), None): the position of the first
\* record with that id, 0 for None
Find(store, id) ==
    IF \E i \in 1..Len(store) : store[i].id = id
    THEN CHOOSE i \in 1..Len(store) :
            /\ store[i].id = id
            /\ \A j \in 1..(i - 1) : store[j].id # id
    ELSE 0

\* mutants of NextId: the list's length, the first element's id
NextIdLen(store) == Len(store) + 1

NextIdFromFirst(store) == IF store # <<>> THEN store[1].id + 1 ELSE 1

\* store[-1]['id'] + 1 if store else 1
NextId(store) == IF store # <<>> THEN store[Len(store)].id + 1 ELSE 1

\* [r for r in store if r['id'] != id]
RECURSIVE Without(_, _)
Without(store, id) ==
    IF store = <<>> THEN <<>>
    ELSE IF store[1].id # id
         THEN <<store[1]>> \o Without(Tail(store), id)
         ELSE Without(Tail(store), id)

\* [task for task in tasks if task['user_id'] == user_id]
RECURSIVE TasksOf(_, _)
TasksOf(store, user_id) ==
    IF store = <<>> THEN <<>>
    ELSE IF store[1].user_id = user_id
         THEN <<store[1]>> \o TasksOf(Tail(store), user_id)
         ELSE TasksOf(Tail(store), user_id)

\* mutant of user_exists: no check
user_existsAlways(user_id) == TRUE

\* any(user['id'] == user_id for user in users)
user_exists(user_id) == \E i \in 1..Len(users) : users[i].id = user_id

\* the dictionary create_user builds
NewUser(obj) ==
    [id |-> NextId(users), name |-> obj.name, age |-> Get(obj, "age", 0)]

\* the dictionary create_task builds
NewTask(obj) ==
    [id |-> NextId(tasks),
     title |-> obj.title,
     description |-> Get(obj, "description", ""),
     user_id |-> obj.user_id,
     completed |-> Get(obj, "completed", FALSE)]

\* update_user's two assignments
UpdatedUser(user, obj) ==
    [user EXCEPT !.name = Get(obj, "name", @), !.age = Get(obj, "age", @)]

\* mutant of UpdatedTask: an omitted description is reset
UpdatedTaskReset(task, obj) ==
    [task EXCEPT !.title = Get(obj, "title", @),
                 !.description = Get(obj, "description", ""),
                 !.user_id = Get(obj, "user_id", @),
                 !.completed = Get(obj, "completed", @)]

\* update_task's four assignments
UpdatedTask(task, obj) ==
    [task EXCEPT !.title = Get(obj, "title", @),
                 !.description = Get(obj, "description", @),
                 !.user_id = Get(obj, "user_id", @),
                 !.completed = Get(obj, "completed", @)]

\* ------------------------------------------------------------ initial state

Idle == [pc |-> "idle", done |-> 0, local |-> <<>>, status |-> 0,
         created |-> {}, deleted |-> {}]

Init ==
    /\ users = << [id |-> 1, name |-> "Alice", age |-> 25],
                  [id |-> 2, name |-> "Bob", age |-> 30] >>
    /\ tasks = << [id |-> 1, title |-> "Learn REST",
                   description |-> "Study REST principles",
                   user_id |-> 1, completed |-> TRUE],
                  [id |-> 2, title |-> "Build API",
                   description |-> "Complete the assigment",
                   user_id |-> 2, completed |-> FALSE] >>
    /\ req = [op |-> "none"]
    /\ resp = [status |-> 0, body |-> <<>>]
    /\ assigned = {1, 2}
    /\ nreq = 0
    /\ repeat = FALSE
    /\ th = [t \in Threads |-> Idle]

\* One request handled to completion: the request, its response, the count.
Handled(r, rsp) ==
    /\ nreq < MaxRequests
    /\ req' = r
    /\ resp' = rsp
    /\ nreq' = nreq + 1
    /\ repeat' = (r.op = req.op /\ "id" \in DOMAIN r /\ r.id = req.id)
    /\ UNCHANGED th

\* ------------------------------------------------------------ user routes

\* GET /users
get_users ==
    /\ Handled([op |-> "get_users"], Json(200, users))
    /\ UNCHANGED <<users, tasks, assigned>>

\* what get_user returns
GetUserResponse(user_id) ==
    LET i == Find(users, user_id) IN
    IF i = 0 THEN Abort(404) ELSE Json(200, users[i])

\* GET /users/<id>
get_user(user_id) ==
    /\ Handled([op |-> "get_user", id |-> user_id], GetUserResponse(user_id))
    /\ UNCHANGED <<users, tasks, assigned>>

\* mutant of create_user: request.json.get('name', '') for a missing name
create_userDefaultName(json) ==
    LET r == [op |-> "create_user", json |-> json] IN
    IF ~Truthy(json)
    THEN /\ Handled(r, Abort(400))
         /\ UNCHANGED <<users, tasks, assigned>>
    ELSE LET new_user == [id |-> NextId(users),
                          name |-> Get(json[1], "name", ""),
                          age |-> Get(json[1], "age", 0)] IN
         /\ users' = Append(users, new_user)
         /\ assigned' = assigned \cup {new_user.id}
         /\ Handled(r, Json(201, new_user))
         /\ UNCHANGED tasks

\* POST /users
create_user(json) ==
    LET r == [op |-> "create_user", json |-> json] IN
    IF ~Truthy(json) \/ "name" \notin DOMAIN json[1]
    THEN /\ Handled(r, Abort(400))
         /\ UNCHANGED <<users, tasks, assigned>>
    ELSE LET new_user == NewUser(json[1]) IN
         /\ users' = Append(users, new_user)
         /\ assigned' = assigned \cup {new_user.id}
         /\ Handled(r, Json(201, new_user))
         /\ UNCHANGED tasks

\* PUT /users/<id>
update_user(user_id, json) ==
    LET r == [op |-> "update_user", id |-> user_id, json |-> json]
        i == Find(users, user_id) IN
    IF i = 0
    THEN /\ Handled(r, Abort(404))
         /\ UNCHANGED <<users, tasks, assigned>>
    ELSE IF ~Truthy(json)
    THEN /\ Handled(r, Abort(400))
         /\ UNCHANGED <<users, tasks, assigned>>
    ELSE LET user == UpdatedUser(users[i], json[1]) IN
         /\ users' = [users EXCEPT ![i] = user]
         /\ Handled(r, Json(200, user))
         /\ UNCHANGED <<tasks, assigned>>

\* mutant of delete_user: 404 for an absent user, as delete_task does
delete_userChecked(user_id) ==
    LET r == [op |-> "delete_user", id |-> user_id] IN
    IF Find(users, user_id) = 0
    THEN /\ Handled(r, Abort(404))
         /\ UNCHANGED <<users, tasks, assigned>>
    ELSE /\ users' = Without(users, user_id)
         /\ Handled(r, Json(204, <<>>))
         /\ UNCHANGED <<tasks, assigned>>

\* mutant of delete_user: the user's tasks are deleted with it
delete_userCascade(user_id) ==
    /\ users' = Without(users, user_id)
    /\ tasks' = SelectSeq(tasks, LAMBDA task : task.user_id # user_id)
    /\ Handled([op |-> "delete_user", id |-> user_id], Json(204, <<>>))
    /\ UNCHANGED assigned

\* DELETE /users/<id>
delete_user(user_id) ==
    /\ users' = Without(users, user_id)
    /\ Handled([op |-> "delete_user", id |-> user_id], Json(204, <<>>))
    /\ UNCHANGED <<tasks, assigned>>

\* ------------------------------------------------------------ task routes

\* GET /tasks
get_tasks ==
    /\ Handled([op |-> "get_tasks"], Json(200, tasks))
    /\ UNCHANGED <<users, tasks, assigned>>

\* what get_task returns
GetTaskResponse(task_id) ==
    LET i == Find(tasks, task_id) IN
    IF i = 0 THEN Abort(404) ELSE Json(200, tasks[i])

\* GET /tasks/<id>
get_task(task_id) ==
    /\ Handled([op |-> "get_task", id |-> task_id], GetTaskResponse(task_id))
    /\ UNCHANGED <<users, tasks, assigned>>

\* POST /tasks
create_task(json) ==
    LET r == [op |-> "create_task", json |-> json] IN
    IF \/ ~Truthy(json)
       \/ "title" \notin DOMAIN json[1]
       \/ "user_id" \notin DOMAIN json[1]
       \/ ~user_exists(json[1].user_id)
    THEN /\ Handled(r, Abort(400))
         /\ UNCHANGED <<users, tasks, assigned>>
    ELSE LET new_task == NewTask(json[1]) IN
         /\ tasks' = Append(tasks, new_task)
         /\ Handled(r, Json(201, new_task))
         /\ UNCHANGED <<users, assigned>>

\* PUT /tasks/<id>
update_task(task_id, json) ==
    LET r == [op |-> "update_task", id |-> task_id, json |-> json]
        i == Find(tasks, task_id) IN
    IF i = 0
    THEN /\ Handled(r, Abort(404))
         /\ UNCHANGED <<users, tasks, assigned>>
    ELSE IF \/ ~Truthy(json)
            \/ ("user_id" \in DOMAIN json[1] /\ ~user_exists(json[1].user_id))
    THEN /\ Handled(r, Abort(400))
         /\ UNCHANGED <<users, tasks, assigned>>
    ELSE LET task == UpdatedTask(tasks[i], json[1]) IN
         /\ tasks' = [tasks EXCEPT ![i] = task]
         /\ Handled(r, Json(200, task))
         /\ UNCHANGED <<users, assigned>>

\* mutant of delete_task: no check that the task exists, as delete_user
delete_taskNoCheck(task_id) ==
    /\ tasks' = Without(tasks, task_id)
    /\ Handled([op |-> "delete_task", id |-> task_id], Json(204, <<>>))
    /\ UNCHANGED <<users, assigned>>

\* DELETE /tasks/<id>
delete_task(task_id) ==
    LET r == [op |-> "delete_task", id |-> task_id] IN
    IF Find(tasks, task_id) = 0
    THEN /\ Handled(r, Abort(404))
         /\ UNCHANGED <<users, tasks, assigned>>
    ELSE /\ tasks' = Without(tasks, task_id)
         /\ Handled(r, Json(204, <<>>))
         /\ UNCHANGED <<users, assigned>>

\* what get_user_tasks returns
GetUserTasksResponse(user_id) ==
    IF ~user_exists(user_id) THEN Abort(404)
    ELSE Json(200, TasksOf(tasks, user_id))

\* GET /users/<id>/tasks
get_user_tasks(user_id) ==
    /\ Handled([op |-> "get_user_tasks", id |-> user_id],
               GetUserTasksResponse(user_id))
    /\ UNCHANGED <<users, tasks, assigned>>

\* ------------------------------------------------------ sequential server

Next ==
    \/ get_users
    \/ \E id \in Ids : get_user(id)
    \/ \E json \in UserJsons : create_user(json)
    \/ \E id \in Ids, json \in UserJsons : update_user(id, json)
    \/ \E id \in Ids : delete_user(id)
    \/ get_tasks
    \/ \E id \in Ids : get_task(id)
    \/ \E json \in TaskJsons : create_task(json)
    \/ \E id \in Ids, json \in TaskJsons : update_task(id, json)
    \/ \E id \in Ids : delete_task(id)
    \/ \E id \in Ids : get_user_tasks(id)

Spec == Init /\ [][Next]_vars

\* -------------------------------------------------------- threaded server
\* app.run() serves each request on a thread of its own and the handlers take
\* no lock, so the interpreter may switch threads between a handler's reads of
\* a global list and its write.  create_user and delete_user are split there.

\* A thread's request ends: its response status, and one more request done.
Finish(t, status, created) ==
    [th EXCEPT ![t] = [pc |-> "idle", done |-> @.done + 1, local |-> <<>>,
                       status |-> status,
                       created |-> @.created \cup created,
                       deleted |-> @.deleted]]

\* create_user up to new_user: the body is checked, users[-1]['id'] is read
t_create_user_build(t, json) ==
    /\ th[t].pc = "idle"
    /\ th[t].done < MaxPerThread
    /\ IF ~Truthy(json) \/ "name" \notin DOMAIN json[1]
       THEN th' = Finish(t, 400, {})
       ELSE th' = [th EXCEPT ![t].pc = "append", ![t].local = NewUser(json[1])]
    /\ UNCHANGED <<users, tasks, req, resp, assigned, nreq, repeat>>

\* users.append(new_user); return 201
t_create_user_append(t) ==
    /\ th[t].pc = "append"
    /\ users' = Append(users, th[t].local)
    /\ assigned' = assigned \cup {th[t].local.id}
    /\ th' = Finish(t, 201, {th[t].local.id})
    /\ UNCHANGED <<tasks, req, resp, nreq, repeat>>

\* delete_user's list comprehension: the new list is built from users
t_delete_user_rebuild(t, user_id) ==
    /\ th[t].pc = "idle"
    /\ th[t].done < MaxPerThread
    /\ th' = [th EXCEPT ![t].pc = "assign", ![t].local = Without(users, user_id),
                        ![t].deleted = @ \cup {user_id}]
    /\ UNCHANGED <<users, tasks, req, resp, assigned, nreq, repeat>>

\* users = <the new list>; return 204
t_delete_user_assign(t) ==
    /\ th[t].pc = "assign"
    /\ users' = th[t].local
    /\ th' = Finish(t, 204, {})
    /\ UNCHANGED <<tasks, req, resp, assigned, nreq, repeat>>

NextThreaded ==
    \/ \E t \in Threads, json \in UserJsons : t_create_user_build(t, json)
    \/ \E t \in Threads : t_create_user_append(t)
    \/ \E t \in Threads, id \in Ids : t_delete_user_rebuild(t, id)
    \/ \E t \in Threads : t_delete_user_assign(t)

SpecThreaded == Init /\ [][NextThreaded]_vars

\* ------------------------------------------------------------ properties

IdsOf(store) == {store[i].id : i \in 1..Len(store)}

Unique(store) ==
    \A i, j \in 1..Len(store) : i # j => store[i].id # store[j].id

HasKey(json, k) == json # <<>> /\ k \in DOMAIN json[1]

\* C1: in every state reachable by requests handled one at a time, no two
\* users share an id and no two tasks share an id.
C1_UniqueIds == Unique(users) /\ Unique(tasks)

\* a task created after a task was deleted
C1_Witness ==
    /\ req.op = "create_task"
    /\ resp.status = 201
    /\ Len(tasks) = 2

\* C2 as stated: the id a POST /users returns is greater than every user id
\* given out before, the ids of deleted users included.
C2_GreaterThanEveryAssigned ==
    [][(req'.op = "create_user" /\ HasKey(req'.json, "name"))
        => /\ resp'.status = 201
           /\ \A a \in assigned : resp'.body.id > a]_vars

\* C2 amended: a POST /users with a name returns 201 and an id greater than
\* the id of every user in the store at that time.
C2_GreaterThanEveryStored ==
    [][(req'.op = "create_user" /\ HasKey(req'.json, "name"))
        => /\ resp'.status = 201
           /\ \A i \in 1..Len(users) : resp'.body.id > users[i].id
           /\ resp'.body.id >= 1]_vars

\* a user created after a user was deleted
C2_Witness ==
    /\ req.op = "create_user"
    /\ resp.status = 201
    /\ Len(users) = 2

\* C3: POST /tasks, and PUT /tasks/<id> on an existing task, with a user_id
\* that is no user's id return 400 and leave the task store as it was.
C3_InvalidReferenceRejected ==
    [][(/\ \/ req'.op = "create_task"
           \/ req'.op = "update_task" /\ req'.id \in IdsOf(tasks)
        /\ HasKey(req'.json, "user_id")
        /\ req'.json[1].user_id \notin IdsOf(users))
        => /\ resp'.status = 400
           /\ tasks' = tasks]_vars

\* a complete POST /tasks body naming a seed user that was deleted
C3_Witness ==
    /\ req.op = "create_task"
    /\ HasKey(req.json, "title")
    /\ HasKey(req.json, "user_id")
    /\ req.json[1].user_id \in {1, 2}
    /\ req.json[1].user_id \notin IdsOf(users)
    /\ resp.status = 400

\* C4: DELETE /users/<id> returns 204 for every id; of an absent id, and a
\* second time for the same id, it leaves the user store as it was.
C4_DeleteUserIdempotent ==
    [][req'.op = "delete_user"
        => /\ resp'.status = 204
           /\ req'.id \notin IdsOf(users')
           /\ req'.id \notin IdsOf(users) => users' = users
           /\ repeat' => users' = users]_vars

\* the same DELETE /users/<id> handled twice in a row
C4_Witness ==
    /\ req.op = "delete_user"
    /\ repeat
    /\ resp.status = 204

\* C5: DELETE /users/<id> leaves the task store as it was, the deleted user's
\* tasks included; the GET /users/<id> and GET /users/<id>/tasks after it
\* return 404, GET /tasks and GET /tasks/<task_id> still return the tasks.
C5_NoCascade ==
    [][/\ req'.op = "delete_user" => tasks' = tasks
       /\ (req.op = "delete_user" /\ req'.op \in {"get_user", "get_user_tasks"}
           /\ req'.id = req.id) => resp'.status = 404
       /\ (req.op = "delete_user" /\ req'.op = "get_tasks")
           => resp' = Json(200, tasks)
       /\ (req.op = "delete_user" /\ req'.op = "get_task")
           => \A i \in 1..Len(tasks) :
                tasks[i].id = req'.id => resp' = Json(200, tasks[i])]_vars

\* GET /users/<id>/tasks answers 404 while a task of that user is stored
C5_Witness ==
    /\ req.op = "get_user_tasks"
    /\ resp.status = 404
    /\ \E i \in 1..Len(tasks) : tasks[i].user_id = req.id

\* the record `old` with the fields of `obj` among `keys` written over it
Overwritten(old, obj, keys) ==
    [k \in DOMAIN old |-> IF k \in keys /\ k \in DOMAIN obj THEN obj[k] ELSE old[k]]

\* C6: a PUT answered 200 overwrites the fields in its body and no other:
\* omitted fields and the id keep their values, the other records are as
\* they were, and the response is the updated record.
C6_PartialUpdate ==
    [][/\ (req'.op = "update_user" /\ resp'.status = 200)
          => \E i \in 1..Len(users) :
               /\ users[i].id = req'.id
               /\ resp'.body = Overwritten(users[i], req'.json[1], {"name", "age"})
               /\ users' = [users EXCEPT ![i] = resp'.body]
               /\ tasks' = tasks
       /\ (req'.op = "update_task" /\ resp'.status = 200)
          => \E i \in 1..Len(tasks) :
               /\ tasks[i].id = req'.id
               /\ resp'.body = Overwritten(tasks[i], req'.json[1],
                       {"title", "description", "user_id", "completed"})
               /\ tasks' = [tasks EXCEPT ![i] = resp'.body]
               /\ users' = users]_vars

\* PUT /tasks/<id> with a body of `completed` alone, on a seed task
C6_Witness ==
    /\ req.op = "update_task"
    /\ resp.status = 200
    /\ DOMAIN req.json[1] = {"completed"}
    /\ resp.body.description # ""
    /\ resp.body.completed = TRUE

\* C7: after a POST /tasks with all four fields answered 201, GET /tasks/<id>
\* for the id of the response answers 200 with a task equal to the response.
C7_RoundTrip ==
    (/\ req.op = "create_task"
     /\ resp.status = 201
     /\ DOMAIN req.json[1] = {"title", "description", "user_id", "completed"})
    => GetTaskResponse(resp.body.id) = Json(200, resp.body)

\* a task created with all four fields supplied
C7_Witness ==
    /\ req.op = "create_task"
    /\ resp.status = 201
    /\ DOMAIN req.json[1] = {"title", "description", "user_id", "completed"}
    /\ resp.body.id \in IdsOf(tasks)

\* C8: DELETE /tasks/<id> of an absent id returns 404 and changes nothing; of
\* a stored id it returns 204 and removes that one task, the others keeping
\* their order; a second DELETE of the same id returns 404.
C8_DeleteTask ==
    [][req'.op = "delete_task"
        => /\ IF req'.id \notin IdsOf(tasks)
              THEN resp'.status = 404 /\ tasks' = tasks
              ELSE /\ resp'.status = 204
                   /\ \E i \in 1..Len(tasks) :
                        /\ tasks[i].id = req'.id
                        /\ tasks' = SubSeq(tasks, 1, i - 1)
                                    \o SubSeq(tasks, i + 1, Len(tasks))
           /\ (repeat' /\ resp.status = 204) => resp'.status = 404
           /\ users' = users]_vars

\* the same DELETE /tasks/<id> handled twice in a row: 204, then 404
C8_Witness ==
    /\ req.op = "delete_task"
    /\ repeat
    /\ resp.status = 404
    /\ Len(tasks) = 1

\* C9 as stated: every user in the store has a non-empty name.
C9_NamesNonEmpty == \A i \in 1..Len(users) : users[i].name # ""

\* C9 amended: POST /users returns 400 and adds no user when the body is
\* missing or empty or has no name; a name that is present, the empty
\* string included, is stored as given in a new last user, with 201.
C9_NameRequired ==
    [][req'.op = "create_user"
        => IF req'.json = <<>> \/ "name" \notin DOMAIN req'.json[1]
           THEN resp'.status = 400 /\ users' = users
           ELSE /\ resp'.status = 201
                /\ users' = Append(users, resp'.body)
                /\ resp'.body.name = req'.json[1].name]_vars

\* POST /users with an age and no name
C9_Witness ==
    /\ req.op = "create_user"
    /\ HasKey(req.json, "age")
    /\ ~HasKey(req.json, "name")
    /\ resp.status = 400
    /\ Len(users) = 2

\* C10: with requests on concurrent threads, no two users share an id, and
\* a user whose POST returned 201 is in the store unless a DELETE of its id
\* was requested.
C10_CriticalSections ==
    /\ Unique(users)
    /\ \A t \in Threads : \A id \in th[t].created :
         (\A d \in Threads : id \notin th[d].deleted) => id \in IdsOf(users)

====
